---- MODULE Spec2Model ----
(***************************************************************************)
(* A model of src/main.py, the orchestration of the TikTok daily           *)
(* processor v5.4.0: main() and run_v35_enhancements().                    *)
(*                                                                         *)
(* main.py delegates to modules of the repository that are not part of the *)
(* visible source (apify_fetcher, daily_processor, v35_enhancements,       *)
(* discord_notify).  Their operators are modelled from spec.md and are     *)
(* marked "spec-modelled" below; everything else is translated from        *)
(* main.py.  A raw record is abstracted to its join key and one engagement *)
(* counter; the columns no property reads (author, AI_CATEGORY, BUILD_NOW, *)
(* acceleration_status, which is a copy of status) are left out.           *)
(***************************************************************************)
EXTENDS Naturals, Sequences, FiniteSets, TLC

\* ------------------------------------------------------------------ bounds
MaxLen == 2        \* raw records fetched per market
MaxCacheLen == 1   \* records per market in the snapshot cache found on disk
MaxStreak == 1     \* largest streak day-count found on disk
MaxConcLen == 1    \* raw records per market of each of two overlapping runs

URLS == {"a", "b"}
VIEWS == {1, 2}
Procs == {1, 2}    \* runs of main; the second one only runs in SpecConc

EnhancedFileCount == 3

VARIABLES
    disk_us, disk_uk,     \* the snapshot cache in cache_dir (one frame per market)
    streak_cache,         \* velocity_streak_cache.json: URL -> consecutive day-count
    pc,                   \* position of each run in main()
    us_data, uk_data,     \* fetch_all_data()'s videos
    yesterday_us, yesterday_uk,   \* what load_yesterday_cache returned
    stats,                \* process_data's mapping (a function on key names)
    enhanced_files,       \* len() of the dict run_v35_enhancements returned
    enh_us_df, enh_uk_df, \* us_df / uk_df handed to integrate_with_daily_processor
    combined_df,          \* combined_df handed to generate_daily_briefing
    raised,               \* call sites of this run that raised an exception
    apify,                \* what the data source holds for each run's fetch
    log,                  \* the run's cache reads/writes and classifications, in order
    disk0                 \* the cache directory as found before any run (history)

vars == <<disk_us, disk_uk, streak_cache, pc, us_data, uk_data, yesterday_us,
          yesterday_uk, stats, enhanced_files, enh_us_df, enh_uk_df, combined_df,
          raised, apify, log, disk0>>

\* ----------------------------------------------------------------- records
RawRecords == [webVideoUrl : URLS, views : VIEWS]

SeqsUpTo(S, n) == UNION {[1..k -> S] : k \in 0..n}

urls(df) == {df[i].webVideoUrl : i \in DOMAIN df}

\* pandas DataFrame.drop_duplicates(subset=['webVideoUrl'], keep='first')
RECURSIVE keep_first(_, _, _)
keep_first(df, i, seen) ==
    IF i > Len(df) THEN <<>>
    ELSE IF df[i].webVideoUrl \in seen THEN keep_first(df, i + 1, seen)
    ELSE <<df[i]>> \o keep_first(df, i + 1, seen \cup {df[i].webVideoUrl})

\* the variant keep='last'
RECURSIVE keep_last(_, _)
keep_last(df, i) ==
    IF i > Len(df) THEN <<>>
    ELSE IF \E j \in (i + 1)..Len(df) : df[j].webVideoUrl = df[i].webVideoUrl
         THEN keep_last(df, i + 1)
    ELSE <<df[i]>> \o keep_last(df, i + 1)

drop_duplicates_last(df) == keep_last(df, 1)

drop_duplicates(df) == keep_first(df, 1, {})

\* spec-modelled (daily_processor.calculate_metrics): a derived column computed
\* deterministically from the raw counters; rows and raw counters are kept.
calculate_metrics(df) ==
    [i \in DOMAIN df |-> ("engagement" :> (df[i].views * 10)) @@ df[i]]

\* spec-modelled (daily_processor.calculate_status, spec 4.3): the prior-day
\* snapshot read as a mapping URL -> record (a later record of a URL replaces
\* an earlier one); no match is NEW, growth over the prior day is SPIKING
\* (standing for the accelerating labels), anything else STABLE.
PriorRecord(yesterday, u) ==
    LET I == {i \in DOMAIN yesterday : yesterday[i].webVideoUrl = u}
    IN  yesterday[CHOOSE i \in I : \A j \in I : j <= i]

StatusOf(r, yesterday) ==
    IF r.webVideoUrl \notin urls(yesterday) THEN "NEW"
    ELSE IF r.views > PriorRecord(yesterday, r.webVideoUrl).views THEN "SPIKING"
    ELSE "STABLE"

calculate_status(df, yesterday) ==
    [i \in DOMAIN df |-> ("status" :> StatusOf(df[i], yesterday)) @@ df[i]]

TagMarket(df, other_urls, both, single) ==
    [i \in DOMAIN df |->
        ("Market" :> (IF df[i].webVideoUrl \in other_urls THEN both ELSE single))
        @@ df[i]]

\* ---------------------------------------------------- run_v35_enhancements
\* lines 43-77: the per-market frames handed to integrate_with_daily_processor.
\* (The ImportError branch of lines 33-38 cannot be taken: line 22 imports the
\* same name when main.py is loaded.)
\* variant: the UK block classifies against yesterday_us
PrepareFrames_SwappedCache(us, uk, y_us, y_uk) ==
    [us_df |-> IF us = <<>> THEN <<>>
               ELSE TagMarket(calculate_status(calculate_metrics(drop_duplicates(us)), y_us),
                              urls(uk), "BOTH", "US ONLY"),
     uk_df |-> IF uk = <<>> THEN <<>>
               ELSE TagMarket(calculate_status(calculate_metrics(drop_duplicates(uk)), y_us),
                              urls(us), "BOTH", "UK ONLY")]

\* variant: the UK block tests membership in uk_urls
PrepareFrames_OwnUrls(us, uk, y_us, y_uk) ==
    [us_df |-> IF us = <<>> THEN <<>>
               ELSE TagMarket(calculate_status(calculate_metrics(drop_duplicates(us)), y_us),
                              urls(uk), "BOTH", "US ONLY"),
     uk_df |-> IF uk = <<>> THEN <<>>
               ELSE TagMarket(calculate_status(calculate_metrics(drop_duplicates(uk)), y_uk),
                              urls(uk), "BOTH", "UK ONLY")]

\* lines 43-77 as written
PrepareFrames(us, uk, y_us, y_uk) ==
    [us_df |-> IF us = <<>> THEN <<>>
               ELSE TagMarket(calculate_status(calculate_metrics(drop_duplicates(us)), y_us),
                              urls(uk), "BOTH", "US ONLY"),
     uk_df |-> IF uk = <<>> THEN <<>>
               ELSE TagMarket(calculate_status(calculate_metrics(drop_duplicates(uk)), y_uk),
                              urls(us), "BOTH", "UK ONLY")]

\* ---------------------------------------------------------------- main 3c
\* lines 202-208: the prior-day data the briefing classifies against
CombinedYesterday(y_us, y_uk) ==
    IF y_us # <<>> /\ y_uk # <<>> THEN y_us \o y_uk
    ELSE IF y_us # <<>> THEN y_us
    ELSE IF y_uk # <<>> THEN y_uk
    ELSE <<>>

\* lines 178-211: combined_df (pd.concat keeps the US rows first)
CombinedFrame(us, uk, y_us, y_uk) ==
    LET concat == us \o uk
    IN  IF concat = <<>> THEN <<>>
        ELSE calculate_status(
                 TagMarket(calculate_metrics(drop_duplicates(concat)),
                           urls(us) \cap urls(uk), "BOTH", "SINGLE"),
                 CombinedYesterday(y_us, y_uk))

\* ----------------------------------------------------------------- main 4
\* lines 246-255: the frame of one market handed to save_today_cache
CacheFrame(data) ==
    IF data = <<>> THEN <<>> ELSE calculate_metrics(drop_duplicates(data))

\* line 136: the only fatal condition main tests
\* variant: "or" in place of "and"
NoDataFetched_Either(us, uk) == us = <<>> \/ uk = <<>>

NoDataFetched(us, uk) == us = <<>> /\ uk = <<>>

\* ------------------------------------------------- delegated, spec-modelled
\* spec 4.4 (Velocity & Streak Engine), one invocation over a classified
\* frame: an accelerating URL's day-count is incremented, any other is reset.
StreakEngine(cache, df) ==
    [u \in URLS |->
        IF \E i \in DOMAIN df : df[i].webVideoUrl = u /\ df[i].status = "SPIKING"
        THEN cache[u] + 1 ELSE 0]

\* spec 4.7 (PipelineStats): category -> count over the classified records
Count(df, st) == Cardinality({i \in DOMAIN df : df[i].status = st})

process_data(us, uk, y_us, y_uk) ==
    LET f == PrepareFrames(us, uk, y_us, y_uk)
    IN  [k \in {"videos", "spiking"} |->
            IF k = "videos" THEN Len(f.us_df) + Len(f.uk_df)
            ELSE Count(f.us_df, "SPIKING") + Count(f.uk_df, "SPIKING")]

\* ------------------------------------------------------------ control flow
\* the order of main's steps, lines 132-266
\* variant: step 4 moved in front of steps 3b and 3c
AfterStep_SaveFirst(step) ==
    CASE step = "fetch" -> "load"
      [] step = "load" -> "process"
      [] step = "process" -> "save"
      [] step = "save" -> "enhance"
      [] step = "enhance" -> "brief"
      [] step = "brief" -> "notify"
      [] step = "notify" -> "done"

AfterStep(step) ==
    CASE step = "fetch" -> "load"
      [] step = "load" -> "process"
      [] step = "process" -> "enhance"
      [] step = "enhance" -> "brief"
      [] step = "brief" -> "save"
      [] step = "save" -> "notify"
      [] step = "notify" -> "done"

Event(op, p) == [op |-> op, y_us |-> yesterday_us[p], y_uk |-> yesterday_uk[p]]

Crash(p, site) ==
    /\ pc' = [pc EXCEPT ![p] = "crashed"]
    /\ raised' = [raised EXCEPT ![p] = @ \cup {site}]

\* lines 132-143
Step1_Fetch(p) ==
    /\ pc[p] = "fetch"
    /\ us_data' = [us_data EXCEPT ![p] = apify[p].us]
    /\ uk_data' = [uk_data EXCEPT ![p] = apify[p].uk]
    /\ pc' = [pc EXCEPT ![p] = IF NoDataFetched(apify[p].us, apify[p].uk)
                               THEN "exit1" ELSE AfterStep("fetch")]
    /\ UNCHANGED <<disk_us, disk_uk, streak_cache, yesterday_us, yesterday_uk, stats,
                   enhanced_files, enh_us_df, enh_uk_df, combined_df, raised, apify,
                   log, disk0>>

\* lines 145-152; load_yesterday_cache is spec-modelled (spec 4.6): the two
\* snapshots as persisted, empty when there is none
Step2_LoadCache(p) ==
    /\ pc[p] = "load"
    /\ yesterday_us' = [yesterday_us EXCEPT ![p] = disk_us]
    /\ yesterday_uk' = [yesterday_uk EXCEPT ![p] = disk_uk]
    /\ log' = [log EXCEPT ![p] = Append(@, [op |-> "load", y_us |-> disk_us, y_uk |-> disk_uk])]
    /\ pc' = [pc EXCEPT ![p] = AfterStep("load")]
    /\ UNCHANGED <<disk_us, disk_uk, streak_cache, us_data, uk_data, stats,
                   enhanced_files, enh_us_df, enh_uk_df, combined_df, raised, apify, disk0>>

\* lines 154-161
Step3_ProcessData(p) ==
    /\ pc[p] = "process"
    /\ stats' = [stats EXCEPT ![p] =
                    process_data(us_data[p], uk_data[p], yesterday_us[p], yesterday_uk[p])]
    /\ log' = [log EXCEPT ![p] = Append(@, Event("classify3", p))]
    /\ pc' = [pc EXCEPT ![p] = AfterStep("process")]
    /\ UNCHANGED <<disk_us, disk_uk, streak_cache, us_data, uk_data, yesterday_us,
                   yesterday_uk, enhanced_files, enh_us_df, enh_uk_df, combined_df,
                   raised, apify, disk0>>

\* process_data raises: the call at line 156 is not inside any try
Step3_ProcessDataRaises(p) ==
    /\ pc[p] = "process"
    /\ Crash(p, "process_data")
    /\ UNCHANGED <<disk_us, disk_uk, streak_cache, us_data, uk_data, yesterday_us,
                   yesterday_uk, stats, enhanced_files, enh_us_df, enh_uk_df,
                   combined_df, apify, log, disk0>>

\* lines 163-172 with run_v35_enhancements (26-112) returning the files
Step3b_Enhancements(p) ==
    /\ pc[p] = "enhance"
    /\ LET f == PrepareFrames(us_data[p], uk_data[p], yesterday_us[p], yesterday_uk[p])
       IN  /\ enh_us_df' = [enh_us_df EXCEPT ![p] = f.us_df]
           /\ enh_uk_df' = [enh_uk_df EXCEPT ![p] = f.uk_df]
           /\ streak_cache' = StreakEngine(streak_cache, f.us_df \o f.uk_df)
    /\ enhanced_files' = [enhanced_files EXCEPT ![p] = EnhancedFileCount]
    /\ stats' = [stats EXCEPT ![p] = ("enhanced_files" :> EnhancedFileCount) @@ @]
    /\ log' = [log EXCEPT ![p] = Append(@, Event("classify3b", p))]
    /\ pc' = [pc EXCEPT ![p] = AfterStep("enhance")]
    /\ UNCHANGED <<disk_us, disk_uk, us_data, uk_data, yesterday_us, yesterday_uk,
                   combined_df, raised, apify, disk0>>

\* an exception in lines 43-85 (drop_duplicates, calculate_metrics,
\* get_author_name, detect_ai, calculate_status, calculate_build_now, the
\* DataFrame conversions): these lines precede the try of line 87, so the
\* exception leaves run_v35_enhancements and, uncaught at line 164, main
Step3b_PreparationRaises(p) ==
    /\ pc[p] = "enhance"
    /\ Crash(p, "enhance_preparation")
    /\ UNCHANGED <<disk_us, disk_uk, streak_cache, us_data, uk_data, yesterday_us,
                   yesterday_uk, stats, enhanced_files, enh_us_df, enh_uk_df,
                   combined_df, apify, log, disk0>>

\* integrate_with_daily_processor raises (before it rewrites the streak
\* cache): caught at line 107, the stage returns {}
Step3b_IntegrateRaises(p) ==
    /\ pc[p] = "enhance"
    /\ LET f == PrepareFrames(us_data[p], uk_data[p], yesterday_us[p], yesterday_uk[p])
       IN  /\ enh_us_df' = [enh_us_df EXCEPT ![p] = f.us_df]
           /\ enh_uk_df' = [enh_uk_df EXCEPT ![p] = f.uk_df]
    /\ enhanced_files' = [enhanced_files EXCEPT ![p] = 0]
    /\ raised' = [raised EXCEPT ![p] = @ \cup {"integrate"}]
    /\ log' = [log EXCEPT ![p] = Append(@, Event("classify3b", p))]
    /\ pc' = [pc EXCEPT ![p] = AfterStep("enhance")]
    /\ UNCHANGED <<disk_us, disk_uk, streak_cache, us_data, uk_data, yesterday_us,
                   yesterday_uk, stats, combined_df, apify, disk0>>

\* lines 174-237
Step3c_Briefing(p) ==
    /\ pc[p] = "brief"
    /\ LET df == CombinedFrame(us_data[p], uk_data[p], yesterday_us[p], yesterday_uk[p])
       IN  /\ combined_df' = [combined_df EXCEPT ![p] = df]
           /\ streak_cache' = StreakEngine(streak_cache, df)
    /\ log' = [log EXCEPT ![p] = Append(@, Event("classify3c", p))]
    /\ pc' = [pc EXCEPT ![p] = AfterStep("brief")]
    /\ UNCHANGED <<disk_us, disk_uk, us_data, uk_data, yesterday_us, yesterday_uk,
                   stats, enhanced_files, enh_us_df, enh_uk_df, raised, apify, disk0>>

\* any exception inside the try of lines 176-237, raised before
\* generate_daily_briefing rewrites the streak cache: caught at line 238
Step3c_BriefingRaises(p) ==
    /\ pc[p] = "brief"
    /\ raised' = [raised EXCEPT ![p] = @ \cup {"briefing"}]
    /\ pc' = [pc EXCEPT ![p] = AfterStep("brief")]
    /\ UNCHANGED <<disk_us, disk_uk, streak_cache, us_data, uk_data, yesterday_us,
                   yesterday_uk, stats, enhanced_files, enh_us_df, enh_uk_df,
                   combined_df, apify, log, disk0>>

\* lines 244-257; save_today_cache is spec-modelled (spec 4.6): both
\* snapshots are replaced in one step
Step4_SaveCache(p) ==
    /\ pc[p] = "save"
    /\ disk_us' = CacheFrame(us_data[p])
    /\ disk_uk' = CacheFrame(uk_data[p])
    /\ log' = [log EXCEPT ![p] = Append(@, Event("save", p))]
    /\ pc' = [pc EXCEPT ![p] = AfterStep("save")]
    /\ UNCHANGED <<streak_cache, us_data, uk_data, yesterday_us, yesterday_uk, stats,
                   enhanced_files, enh_us_df, enh_uk_df, combined_df, raised, apify, disk0>>

\* save_today_cache (or the step's own calculate_metrics) raises: lines
\* 246-257 are not inside any try
Step4_SaveCacheRaises(p) ==
    /\ pc[p] = "save"
    /\ Crash(p, "save_today_cache")
    /\ UNCHANGED <<disk_us, disk_uk, streak_cache, us_data, uk_data, yesterday_us,
                   yesterday_uk, stats, enhanced_files, enh_us_df, enh_uk_df,
                   combined_df, apify, log, disk0>>

\* lines 259-266
Step5_Notify(p) ==
    /\ pc[p] = "notify"
    /\ pc' = [pc EXCEPT ![p] = AfterStep("notify")]
    /\ UNCHANGED <<disk_us, disk_uk, streak_cache, us_data, uk_data, yesterday_us,
                   yesterday_uk, stats, enhanced_files, enh_us_df, enh_uk_df,
                   combined_df, raised, apify, log, disk0>>

\* send_discord_notification raises: the call at line 261 is not inside any try
Step5_NotifyRaises(p) ==
    /\ pc[p] = "notify"
    /\ Crash(p, "send_discord_notification")
    /\ UNCHANGED <<disk_us, disk_uk, streak_cache, us_data, uk_data, yesterday_us,
                   yesterday_uk, stats, enhanced_files, enh_us_df, enh_uk_df,
                   combined_df, apify, log, disk0>>

\* ------------------------------------------------------------------- Init
\* a cache frame as a previous run's step 4 leaves it: deduplicated, with metrics
CacheFrames(n) ==
    {CacheFrame(s) : s \in SeqsUpTo(RawRecords, n)}

Inputs(n) == [us : SeqsUpTo(RawRecords, n), uk : SeqsUpTo(RawRecords, n)]

NoStats == [k \in {} |-> 0]

InitRun(active) ==
    /\ pc = [p \in Procs |-> IF p \in active THEN "fetch" ELSE "off"]
    /\ us_data = [p \in Procs |-> <<>>]
    /\ uk_data = [p \in Procs |-> <<>>]
    /\ yesterday_us = [p \in Procs |-> <<>>]
    /\ yesterday_uk = [p \in Procs |-> <<>>]
    /\ stats = [p \in Procs |-> NoStats]
    /\ enhanced_files = [p \in Procs |-> 0]
    /\ enh_us_df = [p \in Procs |-> <<>>]
    /\ enh_uk_df = [p \in Procs |-> <<>>]
    /\ combined_df = [p \in Procs |-> <<>>]
    /\ raised = [p \in Procs |-> {}]
    /\ log = [p \in Procs |-> <<>>]
    /\ disk0 = [us |-> disk_us, uk |-> disk_uk, streak |-> streak_cache]

\* one run of main over any cache directory and any fetched data
Init ==
    /\ disk_us \in CacheFrames(MaxCacheLen)
    /\ disk_uk \in CacheFrames(MaxCacheLen)
    /\ streak_cache \in [URLS -> 0..MaxStreak]
    /\ \E d \in Inputs(MaxLen) :
          apify = [p \in Procs |-> IF p = 1 THEN d ELSE [us |-> <<>>, uk |-> <<>>]]
    /\ InitRun({1})

Run(p) ==
    \/ Step1_Fetch(p)
    \/ Step2_LoadCache(p)
    \/ Step3_ProcessData(p)
    \/ Step3_ProcessDataRaises(p)
    \/ Step3b_Enhancements(p)
    \/ Step3b_PreparationRaises(p)
    \/ Step3b_IntegrateRaises(p)
    \/ Step3c_Briefing(p)
    \/ Step3c_BriefingRaises(p)
    \/ Step4_SaveCache(p)
    \/ Step4_SaveCacheRaises(p)
    \/ Step5_Notify(p)
    \/ Step5_NotifyRaises(p)

Next == \E p \in Procs : Run(p)

Spec == Init /\ [][Next]_vars

\* ------------------------------------------------ two overlapping runs
\* main takes no lock on cache_dir: two runs started on the same directory
\* interleave step by step.  No call raises here.
RunOk(p) ==
    \/ Step1_Fetch(p)
    \/ Step2_LoadCache(p)
    \/ Step3_ProcessData(p)
    \/ Step3b_Enhancements(p)
    \/ Step3c_Briefing(p)
    \/ Step4_SaveCache(p)
    \/ Step5_Notify(p)

InitConc ==
    /\ disk_us \in CacheFrames(MaxCacheLen)
    /\ disk_uk \in CacheFrames(MaxCacheLen)
    /\ streak_cache = [u \in URLS |-> 0]
    /\ apify \in [Procs -> Inputs(MaxConcLen)]
    /\ InitRun(Procs)

NextConc == \E p \in Procs : RunOk(p)

SpecConc == InitConc /\ [][NextConc]_vars

\* ============================================================ properties
Did(p, op) == \E i \in DOMAIN log[p] : log[p][i].op = op

Rows(df) == {df[i] : i \in DOMAIN df}

\* the run went on after step 3b returned to main
ContinuedPast3b(p) ==
    \/ pc[p] \in {"brief", "save", "notify", "done"}
    \/ pc[p] = "crashed" /\ raised[p] \cap {"save_today_cache", "send_discord_notification"} # {}

\* C1: a run ends fatally only when the fetched data of both markets is
\* empty; whatever later stage fails, a run with records still completes.
C1_OnlyNoDataIsFatal ==
    \A p \in Procs :
        pc[p] \in {"exit1", "crashed"} => (us_data[p] = <<>> /\ uk_data[p] = <<>>)

\* C2: an exception raised anywhere inside run_v35_enhancements is caught
\* at the stage's boundary: the stage returns {}, main goes on, and stats is
\* what process_data produced, without an enhanced_files key.
C2_EnhancementFailureContained ==
    \A p \in Procs :
        raised[p] \cap {"enhance_preparation", "integrate"} # {} =>
            /\ ContinuedPast3b(p)
            /\ enhanced_files[p] = 0
            /\ "enhanced_files" \notin DOMAIN stats[p]
            /\ stats[p] = process_data(us_data[p], uk_data[p],
                                       yesterday_us[p], yesterday_uk[p])

\* the prior-day snapshot of the market(s) in which URL u was fetched today
AbsentFromOwnMarket(p, u) ==
    /\ u \in urls(us_data[p]) => u \notin urls(yesterday_us[p])
    /\ u \in urls(uk_data[p]) => u \notin urls(yesterday_uk[p])

\* C3 as stated: in step 3b and in step 3c a record of market M whose URL
\* is absent from M's prior-day snapshot is NEW, whatever the other market's
\* prior-day snapshot holds.
C3_NewPerMarketInEveryStage ==
    \A p \in Procs :
        /\ Did(p, "classify3b") =>
              /\ \A r \in Rows(enh_us_df[p]) :
                    r.webVideoUrl \notin urls(yesterday_us[p]) => r.status = "NEW"
              /\ \A r \in Rows(enh_uk_df[p]) :
                    r.webVideoUrl \notin urls(yesterday_uk[p]) => r.status = "NEW"
        /\ Did(p, "classify3c") =>
              \A r \in Rows(combined_df[p]) :
                    AbsentFromOwnMarket(p, r.webVideoUrl) => r.status = "NEW"

\* C3 amended: each stage gives NEW exactly to the URLs absent from the
\* prior-day data that stage classifies against: market M's snapshot in step
\* 3b, both markets' snapshots together in step 3c.
C3_NewIffAbsentFromStageSnapshot ==
    \A p \in Procs :
        /\ Did(p, "classify3b") =>
              /\ \A r \in Rows(enh_us_df[p]) :
                    r.status = "NEW" <=> r.webVideoUrl \notin urls(yesterday_us[p])
              /\ \A r \in Rows(enh_uk_df[p]) :
                    r.status = "NEW" <=> r.webVideoUrl \notin urls(yesterday_uk[p])
        /\ Did(p, "classify3c") =>
              \A r \in Rows(combined_df[p]) :
                    r.status = "NEW" <=>
                        r.webVideoUrl \notin (urls(yesterday_us[p]) \cup urls(yesterday_uk[p]))

\* a UK-only URL, new to the UK snapshot, that step 3b calls NEW and step 3c
\* does not, beside a URL that is NEW in both stages
C3_Witness ==
    \E p \in Procs :
        /\ Did(p, "classify3b") /\ Did(p, "classify3c")
        /\ \E r \in Rows(enh_uk_df[p]), c \in Rows(combined_df[p]) :
              /\ r.webVideoUrl = c.webVideoUrl
              /\ r.webVideoUrl \notin urls(us_data[p])
              /\ r.status = "NEW" /\ c.status # "NEW"
        /\ \E r \in Rows(enh_us_df[p]), c \in Rows(combined_df[p]) :
              /\ r.webVideoUrl = c.webVideoUrl
              /\ r.status = "NEW" /\ c.status = "NEW"

\* C4: when load_yesterday_cache returns an empty snapshot for at least one
\* market (main prints "No cache found - all statuses will be NEW"), every
\* record of both markets is NEW in every classifying stage.
C4_AllNewWhenNoCacheReported ==
    \A p \in Procs :
        (yesterday_us[p] = <<>> \/ yesterday_uk[p] = <<>>) =>
            /\ Did(p, "classify3b") =>
                  \A r \in Rows(enh_us_df[p]) \cup Rows(enh_uk_df[p]) : r.status = "NEW"
            /\ Did(p, "classify3c") =>
                  \A r \in Rows(combined_df[p]) : r.status = "NEW"

TaggedBoth(df, u) == \E r \in Rows(df) : r.webVideoUrl = u /\ r.Market = "BOTH"

\* C5: after step 3b a URL is tagged BOTH in the US frame iff it is tagged
\* BOTH in the UK frame iff it was fetched in both markets; every other
\* record carries its own market's single tag, every fetched URL is tagged,
\* and with one market absent all records of the other are single-market.
C5_CrossMarketSymmetric ==
    \A p \in Procs :
        Did(p, "classify3b") =>
            /\ urls(enh_us_df[p]) = urls(us_data[p])
            /\ urls(enh_uk_df[p]) = urls(uk_data[p])
            /\ \A u \in URLS :
                  /\ TaggedBoth(enh_us_df[p], u) <=> TaggedBoth(enh_uk_df[p], u)
                  /\ TaggedBoth(enh_us_df[p], u) <=>
                        u \in urls(us_data[p]) \cap urls(uk_data[p])
            /\ \A r \in Rows(enh_us_df[p]) : r.Market \in {"BOTH", "US ONLY"}
            /\ \A r \in Rows(enh_uk_df[p]) : r.Market \in {"BOTH", "UK ONLY"}
            /\ uk_data[p] = <<>> => \A r \in Rows(enh_us_df[p]) : r.Market = "US ONLY"
            /\ us_data[p] = <<>> => \A r \in Rows(enh_uk_df[p]) : r.Market = "UK ONLY"

\* duplicated raw input with one URL in both markets and one in the UK only
C5_Witness ==
    \E p \in Procs :
        /\ Did(p, "classify3b")
        /\ Len(us_data[p]) > Len(enh_us_df[p])
        /\ \E r \in Rows(enh_us_df[p]) : r.Market = "BOTH"
        /\ \E r \in Rows(enh_uk_df[p]) : r.Market = "BOTH"
        /\ \E r \in Rows(enh_uk_df[p]) : r.Market = "UK ONLY"

FirstIdx(raw, u) ==
    CHOOSE i \in DOMAIN raw :
        /\ raw[i].webVideoUrl = u
        /\ \A j \in DOMAIN raw : raw[j].webVideoUrl = u => i <= j

\* frame df holds one row per URL of raw, each with the counters of the
\* URL's first occurrence in raw, in the order of those first occurrences
FirstOccurrences(df, raw) ==
    /\ urls(df) = urls(raw)
    /\ \A i, j \in DOMAIN df : df[i].webVideoUrl = df[j].webVideoUrl => i = j
    /\ \A i \in DOMAIN df : df[i].views = raw[FirstIdx(raw, df[i].webVideoUrl)].views
    /\ \A i, j \in DOMAIN df :
          i < j => FirstIdx(raw, df[i].webVideoUrl) < FirstIdx(raw, df[j].webVideoUrl)

\* the rows of df whose URL was fetched in raw, in df's order
RECURSIVE Restrict(_, _)
Restrict(df, raw) ==
    IF df = <<>> THEN <<>>
    ELSE IF Head(df).webVideoUrl \in urls(raw)
         THEN <<Head(df)>> \o Restrict(Tail(df), raw)
    ELSE Restrict(Tail(df), raw)

\* C6 as stated: for the raw sequence of each market, every normalized
\* frame of the run (step 3b, step 3c combined, step 4) holds one record
\* per URL of that sequence with the counters of its first occurrence there,
\* in first-occurrence order.
C6_FirstOccurrencePerMarketInEveryFrame ==
    \A p \in Procs :
        /\ Did(p, "classify3b") =>
              /\ FirstOccurrences(enh_us_df[p], us_data[p])
              /\ FirstOccurrences(enh_uk_df[p], uk_data[p])
        /\ Did(p, "classify3c") =>
              /\ FirstOccurrences(Restrict(combined_df[p], us_data[p]), us_data[p])
              /\ FirstOccurrences(Restrict(combined_df[p], uk_data[p]), uk_data[p])
        /\ Did(p, "save") =>
              /\ FirstOccurrences(disk_us, us_data[p])
              /\ FirstOccurrences(disk_uk, uk_data[p])

\* C6 amended: the step 3b and step 4 frames hold the first occurrences of
\* their market's raw sequence; the step 3c frame holds the first occurrences
\* of the US sequence followed by the UK sequence; deduplicating any of these
\* frames again returns it unchanged.
C6_FirstOccurrenceOfEachFramesInput ==
    \A p \in Procs :
        /\ Did(p, "classify3b") =>
              /\ FirstOccurrences(enh_us_df[p], us_data[p])
              /\ FirstOccurrences(enh_uk_df[p], uk_data[p])
              /\ drop_duplicates(enh_us_df[p]) = enh_us_df[p]
              /\ drop_duplicates(enh_uk_df[p]) = enh_uk_df[p]
        /\ Did(p, "classify3c") =>
              /\ FirstOccurrences(combined_df[p], us_data[p] \o uk_data[p])
              /\ drop_duplicates(combined_df[p]) = combined_df[p]
        /\ Did(p, "save") =>
              /\ FirstOccurrences(disk_us, us_data[p])
              /\ FirstOccurrences(disk_uk, uk_data[p])
              /\ drop_duplicates(disk_us) = disk_us
              /\ drop_duplicates(disk_uk) = disk_uk

\* a run that saved its cache having fetched the same URL twice in the US
\* market with different counters and once more in the UK market
C6_Witness ==
    \E p \in Procs :
        /\ Did(p, "classify3b") /\ Did(p, "classify3c") /\ Did(p, "save")
        /\ Len(us_data[p]) = 2
        /\ us_data[p][1].webVideoUrl = us_data[p][2].webVideoUrl
        /\ us_data[p][1].views # us_data[p][2].views
        /\ Len(disk_us) = 1
        /\ \E r \in Rows(uk_data[p]) :
              r.webVideoUrl = us_data[p][1].webVideoUrl /\ r.views # us_data[p][1].views

\* C7 as stated: empty input for one or both markets never ends the run in
\* an error state.
C7_EmptyInputNeverAnError ==
    \A p \in Procs : pc[p] \in {"exit1", "crashed"} => raised[p] # {}

\* C7 amended: empty input for exactly one market gives empty outputs for
\* that market at every stage (its step 3b frame and its cache frame are
\* empty, the other market's records are tagged single-market) and no error;
\* with both markets empty the run ends at step 1 with exit status 1, before
\* any stage and without a stats mapping.
C7_OneEmptyMarketIsSafe ==
    \A p \in Procs :
        /\ pc[p] = "exit1" =>
              /\ us_data[p] = <<>> /\ uk_data[p] = <<>>
              /\ log[p] = <<>> /\ stats[p] = NoStats
        /\ pc[p] \notin {"off", "fetch", "exit1"} => (us_data[p] # <<>> \/ uk_data[p] # <<>>)
        /\ pc[p] = "crashed" => raised[p] # {}
        /\ (Did(p, "classify3b") /\ us_data[p] = <<>>) =>
              /\ enh_us_df[p] = <<>>
              /\ \A r \in Rows(enh_uk_df[p]) : r.Market = "UK ONLY"
        /\ (Did(p, "classify3b") /\ uk_data[p] = <<>>) =>
              /\ enh_uk_df[p] = <<>>
              /\ \A r \in Rows(enh_us_df[p]) : r.Market = "US ONLY"
        /\ (Did(p, "classify3c") /\ (us_data[p] = <<>> \/ uk_data[p] = <<>>)) =>
              /\ urls(combined_df[p]) = urls(us_data[p]) \cup urls(uk_data[p])
              /\ \A r \in Rows(combined_df[p]) : r.Market = "SINGLE"
        /\ (Did(p, "save") /\ us_data[p] = <<>>) => disk_us = <<>>
        /\ (Did(p, "save") /\ uk_data[p] = <<>>) => disk_uk = <<>>

\* a completed run whose UK market was empty
C7_Witness ==
    \E p \in Procs :
        /\ pc[p] = "done" /\ raised[p] = {}
        /\ uk_data[p] = <<>> /\ us_data[p] # <<>>
        /\ Did(p, "classify3b") /\ Did(p, "classify3c") /\ Did(p, "save")

Times(p, op) == Cardinality({i \in DOMAIN log[p] : log[p][i].op = op})

Spiking(df, u) == \E r \in Rows(df) : r.webVideoUrl = u /\ r.status = "SPIKING"

RunOutcome(d, in) ==
    IF NoDataFetched(in.us, in.uk) THEN d
    ELSE LET f == PrepareFrames(in.us, in.uk, d.us, d.uk)
             s3b == StreakEngine(d.streak, f.us_df \o f.uk_df)
             s3c == StreakEngine(s3b, CombinedFrame(in.us, in.uk, d.us, d.uk))
         IN  [us |-> CacheFrame(in.us), uk |-> CacheFrame(in.uk), streak |-> s3c]

\* C10: whatever the interleaving of two overlapping runs, the cache
\* directory they leave is the one some serial order of the two would leave.
C10_OverlappingRunsSerializable ==
    (\A p \in Procs : pc[p] \in {"done", "exit1"}) =>
        [us |-> disk_us, uk |-> disk_uk, streak |-> streak_cache] \in
            {RunOutcome(RunOutcome(disk0, apify[1]), apify[2]),
             RunOutcome(RunOutcome(disk0, apify[2]), apify[1])}

====
